---------------------------- MODULE Spec2Model ----------------------------
(***************************************************************************)
(* Flashcard spaced-repetition scheduler (SM-2 variant) of                 *)
(* backend/app/models/flashcards.py: Flashcard.record_review and           *)
(* Flashcard.calculate_memory_strength.                                    *)
(*                                                                         *)
(* Number representation.                                                  *)
(*  - ease_factor is a Python float.  Every value the code produces from   *)
(*    integer qualities is a multiple of 0.02 up to binary rounding error, *)
(*    so it is kept in hundredths (250 stands for 2.5).  The accumulated   *)
(*    rounding error (about 1e-15) can only change round(interval *        *)
(*    ease_factor) when the exact product ends in .5; there the float      *)
(*    product may fall on either side or exactly on .5 (where Python       *)
(*    rounds half to even), so RoundProduct returns both neighbours.       *)
(*  - instants are integers counting clock ticks, TicksPerDay ticks to a   *)
(*    day; a tick stands for any positive amount of time shorter than a    *)
(*    day (the clock's resolution is a microsecond); timedelta.days is the *)
(*    floor of the difference in days.                                     *)
(*  - a memory strength is the exact rational num/den.                     *)
(***************************************************************************)
EXTENDS Integers, Sequences, FiniteSets, TLC

\* ---- bounds of the model ------------------------------------------------
TicksPerDay   == 2
MaxClock      == 5
MaxInterval   == 40
MaxRepetition == 4
MaxEase       == 270

\* ---- program constants (hundredths) --------------------------------------
DefaultEase   == 250
MinEase       == 130

\* quality_response values handed to record_review
QualityInputs == {-3, 0, 2, 3, 4, 5, 7}

VARIABLES
    ease_factor,   \* Flashcard.ease_factor, in hundredths
    interval,      \* Flashcard.interval, days
    repetition,    \* Flashcard.repetition
    next_review,   \* Flashcard.next_review, ticks
    updated_at,    \* Flashcard.updated_at, ticks
    clock,         \* what datetime.utcnow() returns when read now
    log,           \* <<>> or the last review: the fields before it, the quality given
    memory,        \* <<>> or the last calculate_memory_strength call since then
    streak,        \* reviews with quality >= 3 since the last one with quality < 3
    history,       \* the scripted reviews so far: quality given, instant read
    cards,         \* Deck.flashcards: the Flashcard rows of a deck, in list order
    last,          \* the deck's reviews: how many, the card last reviewed, the rows before
    listing        \* <<>> or what the last Deck.to_dict(include_flashcards=True) gave

deckVars == <<cards, last, listing>>

vars == <<ease_factor, interval, repetition, next_review, updated_at,
          clock, log, memory, streak, history, cards, last, listing>>

\* ---- helpers --------------------------------------------------------------
Min(a, b) == IF a < b THEN a ELSE b

Max(a, b) == IF a > b THEN a ELSE b

\* Clamp without the upper limit
ClampNoUpper(quality_response) == Max(quality_response, 0)

\* quality = min(max(quality_response, 0), 5)
Clamp(quality_response) == Min(Max(quality_response, 0), 5)

\* EaseDelta without the quadratic term
EaseDeltaLinear(quality) == 10 - (5 - quality) * 8

\* 0.1 - (5 - quality) * (0.08 + (5 - quality) * 0.02), in hundredths
EaseDelta(quality) == 10 - (5 - quality) * (8 + (5 - quality) * 2)

\* NewEase without the floor
NewEaseNoFloor(ef, quality) == ef + EaseDelta(quality)

\* max(1.3, ease_factor + delta)
NewEase(ef, quality) == Max(MinEase, ef + EaseDelta(quality))

\* round(interval * ease_factor): the integers nearest to i * ef / 100
RoundProduct(i, ef) ==
    LET p == i * ef
        lo == p \div 100
        r == p % 100
    IN  IF r < 50 THEN {lo}
        ELSE IF r > 50 THEN {lo + 1}
        ELSE {lo, lo + 1}

\* ReviewOutcomes with the textbook SM-2 lapse, which also lowers the ease
ReviewOutcomesLapseEase(ef, i, n, quality_response) ==
    LET quality == Clamp(quality_response)
        ef2 == NewEase(ef, quality)
    IN  IF quality < 3
        THEN {[ease_factor |-> ef2, interval |-> 1, repetition |-> 0]}
        ELSE IF n = 0
        THEN {[ease_factor |-> ef2, interval |-> 1, repetition |-> n + 1]}
        ELSE IF n = 1
        THEN {[ease_factor |-> ef2, interval |-> 6, repetition |-> n + 1]}
        ELSE {[ease_factor |-> ef2, interval |-> j, repetition |-> n + 1] :
                 j \in RoundProduct(i, ef2)}

\* ReviewOutcomes choosing the interval from the repetition after the
\* increment
ReviewOutcomesIncrFirst(ef, i, n, quality_response) ==
    LET quality == Clamp(quality_response)
        ef2 == NewEase(ef, quality)
        m == n + 1
    IN  IF quality < 3
        THEN {[ease_factor |-> ef, interval |-> 1, repetition |-> 0]}
        ELSE IF m = 0
        THEN {[ease_factor |-> ef2, interval |-> 1, repetition |-> m]}
        ELSE IF m = 1
        THEN {[ease_factor |-> ef2, interval |-> 6, repetition |-> m]}
        ELSE {[ease_factor |-> ef2, interval |-> j, repetition |-> m] :
                 j \in RoundProduct(i, ef2)}

\* ReviewOutcomes growing the interval by the ease factor of before the
\* review
ReviewOutcomesOldEase(ef, i, n, quality_response) ==
    LET quality == Clamp(quality_response)
        ef2 == NewEase(ef, quality)
    IN  IF quality < 3
        THEN {[ease_factor |-> ef, interval |-> 1, repetition |-> 0]}
        ELSE IF n = 0
        THEN {[ease_factor |-> ef2, interval |-> 1, repetition |-> n + 1]}
        ELSE IF n = 1
        THEN {[ease_factor |-> ef2, interval |-> 6, repetition |-> n + 1]}
        ELSE {[ease_factor |-> ef2, interval |-> j, repetition |-> n + 1] :
                 j \in RoundProduct(i, ef)}

\* ReviewOutcomes with a lapse that resets the interval to 0
ReviewOutcomesLapseZero(ef, i, n, quality_response) ==
    LET quality == Clamp(quality_response)
        ef2 == NewEase(ef, quality)
    IN  IF quality < 3
        THEN {[ease_factor |-> ef, interval |-> 0, repetition |-> 0]}
        ELSE IF n = 0
        THEN {[ease_factor |-> ef2, interval |-> 1, repetition |-> n + 1]}
        ELSE IF n = 1
        THEN {[ease_factor |-> ef2, interval |-> 6, repetition |-> n + 1]}
        ELSE {[ease_factor |-> ef2, interval |-> j, repetition |-> n + 1] :
                 j \in RoundProduct(i, ef2)}

\* ReviewOutcomes with a lapse that keeps the repetition count
ReviewOutcomesKeepStreak(ef, i, n, quality_response) ==
    LET quality == Clamp(quality_response)
        ef2 == NewEase(ef, quality)
    IN  IF quality < 3
        THEN {[ease_factor |-> ef, interval |-> 1, repetition |-> n]}
        ELSE IF n = 0
        THEN {[ease_factor |-> ef2, interval |-> 1, repetition |-> n + 1]}
        ELSE IF n = 1
        THEN {[ease_factor |-> ef2, interval |-> 6, repetition |-> n + 1]}
        ELSE {[ease_factor |-> ef2, interval |-> j, repetition |-> n + 1] :
                 j \in RoundProduct(i, ef2)}

\* the scheduling fields record_review can leave, from (ef, i, n) and the
\* raw quality_response
ReviewOutcomes(ef, i, n, quality_response) ==
    LET quality == Clamp(quality_response)
        ef2 == NewEase(ef, quality)
    IN  IF quality < 3
        THEN {[ease_factor |-> ef, interval |-> 1, repetition |-> 0]}
        ELSE IF n = 0
        THEN {[ease_factor |-> ef2, interval |-> 1, repetition |-> n + 1]}
        ELSE IF n = 1
        THEN {[ease_factor |-> ef2, interval |-> 6, repetition |-> n + 1]}
        ELSE {[ease_factor |-> ef2, interval |-> j, repetition |-> n + 1] :
                 j \in RoundProduct(i, ef2)}

\* ElapsedDays counting the day that has begun
ElapsedDaysInclusive(now, upd) == (now - upd) \div TicksPerDay + 1

\* (datetime.utcnow() - self.updated_at).days
ElapsedDays(now, upd) == (now - upd) \div TicksPerDay

\* MemoryStrength relating the elapsed days to the whole interval
MemoryStrengthWholeInterval(i, days) ==
    IF i = 0
    THEN [raised |-> TRUE, num |-> 0, den |-> 1]
    ELSE LET n == i * i
             d == i * i + days * days
         IN  IF n > d THEN [raised |-> FALSE, num |-> 1, den |-> 1]
             ELSE IF n < 0 THEN [raised |-> FALSE, num |-> 0, den |-> 1]
             ELSE [raised |-> FALSE, num |-> n, den |-> d]

\* 1.0 / (1.0 + (time_elapsed / (self.interval * 0.5)) ** 2), then
\* max(0, min(1, memory)); the division raises when interval is 0
MemoryStrength(i, days) ==
    IF i = 0
    THEN [raised |-> TRUE, num |-> 0, den |-> 1]
    ELSE LET n == i * i
             d == i * i + 4 * days * days
         IN  IF n > d THEN [raised |-> FALSE, num |-> 1, den |-> 1]
             ELSE IF n < 0 THEN [raised |-> FALSE, num |-> 0, den |-> 1]
             ELSE [raised |-> FALSE, num |-> n, den |-> d]

\* ---- initial states -------------------------------------------------------
\* no deck is looked at
NoDeck ==
    /\ cards = <<>>
    /\ last = <<>>
    /\ listing = <<>>

\* A newly created card: the column defaults, next_review read from the
\* clock in __init__, updated_at read from the clock when the row is
\* inserted.
Init ==
    /\ ease_factor = DefaultEase
    /\ interval = 1
    /\ repetition = 0
    /\ next_review = 0
    /\ \E d \in 0..1 : updated_at = d /\ clock = d
    /\ log = <<>>
    /\ memory = <<>>
    /\ streak = 0
    /\ history = <<>>
    /\ NoDeck

\* A card as handed to the scheduler with arbitrary column values
\* (Flashcard(**kwargs), or a row written elsewhere).
RowEase       == {MinEase, 150, 230, DefaultEase}
RowInterval   == {0, 1, 2, 5, 6, 15}
RowRepetition == 0..3
RowUpdated    == 0..4

InitRow ==
    /\ ease_factor \in RowEase
    /\ interval \in RowInterval
    /\ repetition \in RowRepetition
    /\ updated_at \in RowUpdated
    /\ next_review = updated_at + interval * TicksPerDay
    /\ clock \in 0..1
    /\ log = <<>>
    /\ memory = <<>>
    /\ streak = 0
    /\ history = <<>>
    /\ NoDeck

\* ---- operations -----------------------------------------------------------
\* Flashcard.record_review(quality_response).  The clock is read twice
\* (lines 72 and 73); d ticks pass between the two reads.
Review(q, d) ==
    /\ \E o \in ReviewOutcomes(ease_factor, interval, repetition, q) :
        /\ o.ease_factor <= MaxEase
        /\ o.interval <= MaxInterval
        /\ o.repetition <= MaxRepetition
        /\ ease_factor' = o.ease_factor
        /\ interval' = o.interval
        /\ repetition' = o.repetition
        /\ next_review' = clock + o.interval * TicksPerDay
    /\ updated_at' = clock + d
    /\ clock' = clock + d
    /\ log' = <<[ease_factor |-> ease_factor, interval |-> interval,
                 repetition |-> repetition, quality |-> q]>>
    /\ memory' = <<>>
    /\ streak' = IF q >= 3 THEN streak + 1 ELSE 0
    /\ UNCHANGED deckVars

\* a review at any instant up to MaxClock
RecordReview(q, d) ==
    /\ clock + d <= MaxClock
    /\ Review(q, d)
    /\ UNCHANGED history

\* Flashcard.calculate_memory_strength()
CalculateMemoryStrength ==
    /\ memory' = <<[now |-> clock] @@
                    MemoryStrength(interval, ElapsedDays(clock, updated_at))>>
    /\ UNCHANGED <<ease_factor, interval, repetition, next_review,
                   updated_at, clock, log, streak, history, deckVars>>

\* time passes
Tick ==
    /\ clock < MaxClock
    /\ clock' = clock + 1
    /\ UNCHANGED <<ease_factor, interval, repetition, next_review,
                   updated_at, log, memory, streak, history, deckVars>>

Next ==
    \/ \E q \in QualityInputs, d \in 0..1 : RecordReview(q, d)
    \/ CalculateMemoryStrength
    \/ Tick

Spec == Init /\ [][Next]_vars

SpecRow == InitRow /\ [][Next]_vars

\* ---- a card reviewed no earlier than it is due -----------------------------
ScenarioEnd == 8 * TicksPerDay

ScenarioQualities == {2, 4, 5}

\* the card is created at day 0
InitScenario ==
    /\ Init
    /\ clock = 0

\* record_review called once the card is due; the call is written down
ScenarioReview(q, d) ==
    /\ Len(history) < 3
    /\ clock >= next_review
    /\ clock + d <= ScenarioEnd
    /\ Review(q, d)
    /\ history' = Append(history, [quality |-> q, at |-> clock])

ScenarioTick ==
    /\ clock < ScenarioEnd
    /\ clock' = clock + 1
    /\ UNCHANGED <<ease_factor, interval, repetition, next_review,
                   updated_at, log, memory, streak, history, deckVars>>

NextScenario ==
    \/ \E q \in ScenarioQualities, d \in 0..1 : ScenarioReview(q, d)
    \/ CalculateMemoryStrength
    \/ ScenarioTick

SpecScenario == InitScenario /\ [][NextScenario]_vars

\* ---- a deck of cards ------------------------------------------------------
MaxDeckClock   == 3
MaxDeckReviews == 3

DefaultDifficulty == 3

CardIds == {1, 2}

DeckQualities == {2, 4, 5}

\* a card of the deck as created and inserted at instant 0
NewCard(k) ==
    [id |-> k, deck_id |-> 1, front_content |-> 10 + k, back_content |-> 20 + k,
     difficulty |-> DefaultDifficulty,
     ease_factor |-> DefaultEase, interval |-> 1, repetition |-> 0,
     next_review |-> 0, updated_at |-> 0]

InitDeck ==
    /\ ease_factor = DefaultEase
    /\ interval = 1
    /\ repetition = 0
    /\ next_review = 0
    /\ updated_at = 0
    /\ clock = 0
    /\ log = <<>>
    /\ memory = <<>>
    /\ streak = 0
    /\ history = <<>>
    /\ cards = [k \in CardIds |-> NewCard(k)]
    /\ last = [count |-> 0, id |-> 0, before |-> [k \in CardIds |-> NewCard(k)]]
    /\ listing = <<>>

\* the row record_review leaves: outcome o, the clock read as t1 (line 72)
\* and then as t2 (line 73); ReviewedCardRerated also rates the difficulty
ReviewedCardRerated(card, o, t1, t2) ==
    [card EXCEPT !.ease_factor = o.ease_factor,
                 !.interval = o.interval,
                 !.repetition = o.repetition,
                 !.difficulty = IF o.repetition = 0 THEN 5 ELSE card.difficulty,
                 !.next_review = t1 + o.interval * TicksPerDay,
                 !.updated_at = t2]

ReviewedCard(card, o, t1, t2) ==
    [card EXCEPT !.ease_factor = o.ease_factor,
                 !.interval = o.interval,
                 !.repetition = o.repetition,
                 !.next_review = t1 + o.interval * TicksPerDay,
                 !.updated_at = t2]

\* record_review on card c of the deck
ReviewCard(c, q, d) ==
    /\ last.count < MaxDeckReviews
    /\ clock + d <= MaxDeckClock
    /\ \E o \in ReviewOutcomes(cards[c].ease_factor, cards[c].interval,
                               cards[c].repetition, q) :
        /\ o.ease_factor <= MaxEase
        /\ o.interval <= MaxInterval
        /\ o.repetition <= MaxRepetition
        /\ cards' = [cards EXCEPT ![c] = ReviewedCard(cards[c], o, clock, clock + d)]
    /\ clock' = clock + d
    /\ last' = [count |-> last.count + 1, id |-> c, before |-> cards]
    /\ listing' = <<>>
    /\ UNCHANGED <<ease_factor, interval, repetition, next_review, updated_at,
                   log, memory, streak, history>>

\* a / b < c / d for positive denominators
Less(x, y) == x.num * y.den < y.num * x.den

\* sorted(ids, key): ascending by key, equal keys in list order
SortedByKey(key) ==
    CHOOSE s \in [1..Cardinality(CardIds) -> CardIds] :
        \A i, j \in 1..Cardinality(CardIds) :
            i < j => \/ Less(key[s[i]], key[s[j]])
                     \/ (~Less(key[s[j]], key[s[i]]) /\ s[i] < s[j])

\* Deck.to_dict(include_flashcards=True).  Every calculate_memory_strength
\* call reads the clock: once per card for the sort keys, in list order, then
\* once per card in Flashcard.to_dict, in sorted order; ds[k] ticks pass
\* between read k and read k + 1.
DeckToDict(ds) ==
    LET n == Cardinality(CardIds)
        at(k) == clock + Cardinality({j \in 1..(k - 1) : ds[j] = 1})
        strength(c, t) == MemoryStrength(cards[c].interval,
                                         ElapsedDays(t, cards[c].updated_at))
        key == [c \in CardIds |-> strength(c, at(c))]
        s == SortedByKey(key)
    IN  /\ at(2 * n) <= MaxDeckClock
        /\ listing' =
             IF \E c \in CardIds : key[c].raised
             THEN <<[raised |-> TRUE, flashcards |-> <<>>]>>
             ELSE <<[raised |-> FALSE,
                     flashcards |->
                        [p \in 1..n |->
                            [id |-> s[p],
                             memory_strength |-> strength(s[p], at(n + p))]]]>>
        /\ clock' = at(2 * n)
        /\ UNCHANGED <<ease_factor, interval, repetition, next_review,
                       updated_at, log, memory, streak, history, cards, last>>

DeckTick ==
    /\ clock < MaxDeckClock
    /\ clock' = clock + 1
    /\ UNCHANGED <<ease_factor, interval, repetition, next_review, updated_at,
                   log, memory, streak, history, cards, last, listing>>

NextDeck ==
    \/ \E c \in CardIds, q \in DeckQualities, d \in 0..1 : ReviewCard(c, q, d)
    \/ \E ds \in [1..(2 * Cardinality(CardIds) - 1) -> 0..1] : DeckToDict(ds)
    \/ DeckTick

SpecDeck == InitDeck /\ [][NextDeck]_vars

\* ---- properties -----------------------------------------------------------
Reviewed == log # <<>>

\* the scheduling fields of the card as a record
Fields == [ease_factor |-> ease_factor, interval |-> interval,
           repetition |-> repetition]

\* C1: from a newly created card, after any sequence of reviews with any
\* quality values, ease_factor >= 1.3.
C1_EaseFloor == ease_factor >= 130

\* a review with quality 3 has just been stopped at the floor
C1_Witness ==
    /\ Reviewed
    /\ log[1].quality = 3
    /\ log[1].ease_factor - 14 < 130
    /\ ease_factor = 130

\* C2: a review with quality < 3 leaves repetition = 0, interval = 1 and the
\* ease factor it found.
C2_LapseReset ==
    (Reviewed /\ log[1].quality < 3) =>
        /\ repetition = 0
        /\ interval = 1
        /\ ease_factor = log[1].ease_factor

\* a lapse on a card that had a streak and a longer interval
C2_Witness ==
    /\ Reviewed
    /\ log[1].quality < 3
    /\ log[1].repetition >= 2
    /\ log[1].interval > 1
    /\ log[1].ease_factor # DefaultEase
    /\ repetition = 0

\* C3: from repetition = 0, whatever the interval, a review with
\* quality >= 3 leaves interval = 1 and repetition = 1, and the successful
\* review that comes next leaves interval = 6 and repetition = 2.
C3_FirstSuccess ==
    /\ [](Reviewed /\ log[1].quality >= 3 /\ log[1].repetition = 0
            => interval = 1 /\ repetition = 1)
    /\ [][(/\ Reviewed
           /\ log[1].quality >= 3
           /\ log[1].repetition = 0
           /\ log' # log
           /\ log'[1].quality >= 3)
            => (interval' = 6 /\ repetition' = 2)]_vars

\* the second success in a row: it found interval 1 and repetition 1, left
\* by the first
C3_Witness ==
    /\ Reviewed
    /\ log[1].quality >= 3
    /\ log[1].repetition = 1
    /\ log[1].interval = 1
    /\ repetition = 2
    /\ interval = 6

\* C4: from repetition >= 2 a review with quality >= 3 leaves repetition one
\* higher and interval = round(interval before * ease factor after), i.e. an
\* integer within one half of that product.
C4_GrowthLaw ==
    (Reviewed /\ log[1].quality >= 3 /\ log[1].repetition >= 2) =>
        /\ repetition = log[1].repetition + 1
        /\ 100 * interval - log[1].interval * ease_factor <= 50
        /\ log[1].interval * ease_factor - 100 * interval <= 50

\* a growth step where the ease factor of before the review would have given
\* another interval
C4_Witness ==
    /\ Reviewed
    /\ log[1].quality >= 3
    /\ log[1].repetition >= 2
    /\ ease_factor # log[1].ease_factor
    /\ interval \notin RoundProduct(log[1].interval, log[1].ease_factor)

\* q brought into the closed range [0,5]
C5_Clamped(q) == IF q < 0 THEN 0 ELSE IF q > 5 THEN 5 ELSE q

\* C5: a review with any quality leaves what the review with that quality
\* brought into [0,5] leaves: 7 acts as 5, -3 acts as 0.
C5_Clamp ==
    Reviewed =>
        LET e == log[1]
        IN  /\ Fields \in ReviewOutcomes(e.ease_factor, e.interval,
                                         e.repetition, C5_Clamped(e.quality))
            /\ ReviewOutcomes(e.ease_factor, e.interval, e.repetition, e.quality)
                 = ReviewOutcomes(e.ease_factor, e.interval, e.repetition,
                                  C5_Clamped(e.quality))

\* a review with quality 7 on a card with a streak
C5_Witness ==
    /\ Reviewed
    /\ log[1].quality = 7
    /\ log[1].repetition >= 2
    /\ ease_factor = log[1].ease_factor + 10

\* C6: after a review, next_review and updated_at come from one instant:
\* next_review - updated_at is the new interval in days.
C6_SameInstant ==
    Reviewed => next_review - updated_at = interval * TicksPerDay

Called == memory # <<>>

\* C7: the strength estimate returns a value s with 0 <= s <= 1 for every
\* state and every instant, interval = 0 and instants before updated_at
\* included.
C7_StrengthBounds ==
    Called =>
        /\ ~memory[1].raised
        /\ 0 <= memory[1].num
        /\ memory[1].num <= memory[1].den

\* C8: on a state with interval = 0 the strength estimate does not fail; it
\* returns what it returns for interval = 1.
C8_ZeroIntervalGuard ==
    (Called /\ interval = 0) =>
        LET m == MemoryStrength(1, ElapsedDays(memory[1].now, updated_at))
        IN  /\ ~memory[1].raised
            /\ memory[1].num * m.den = m.num * memory[1].den

\* C9: at an instant before updated_at the elapsed days count as 0: the
\* strength estimate, when it returns, returns 1.
C9_NonNegativeElapsed ==
    (Called /\ memory[1].now < updated_at /\ ~memory[1].raised) =>
        memory[1].num = memory[1].den

\* C10: two strength estimates of the same state, the second at the same or
\* a later instant: the second value is no greater than the first.
C10_MonotoneDecay ==
    [][(/\ Called
        /\ memory' # <<>>
        /\ ~memory[1].raised
        /\ ~memory'[1].raised
        /\ memory[1].now <= memory'[1].now)
         => memory'[1].num * memory[1].den <= memory[1].num * memory'[1].den]_vars

\* the last strength estimate was taken interval * 0.5 days after updated_at
AtHalfInterval ==
    /\ Called
    /\ interval >= 1
    /\ 2 * (memory[1].now - updated_at) = interval * TicksPerDay

\* C11 (as claimed): for every interval >= 1, odd or even, the strength
\* estimate at updated_at + interval * 0.5 days is 0.5.
C11_HalfLifeAnyInterval ==
    AtHalfInterval => 2 * memory[1].num = memory[1].den

\* C11 (amended): at updated_at + interval * 0.5 days the strength estimate
\* is 0.5 when interval is even; when interval is odd the elapsed time is
\* cut to (interval - 1) / 2 whole days and the estimate is
\* interval^2 / (interval^2 + (interval - 1)^2).
C11_HalfLife ==
    AtHalfInterval =>
        /\ ~memory[1].raised
        /\ IF interval % 2 = 0
           THEN 2 * memory[1].num = memory[1].den
           ELSE memory[1].num * (interval * interval
                                   + (interval - 1) * (interval - 1))
                  = memory[1].den * interval * interval

\* an estimate taken at half of an even interval
C11_Witness ==
    /\ AtHalfInterval
    /\ interval % 2 = 0
    /\ memory[1].now > updated_at
    /\ 2 * memory[1].num = memory[1].den

\* C12: for interval >= 1 the strength estimate at now = updated_at is
\* exactly 1, in particular right after a review.
C12_StrengthAtZero ==
    (Called /\ interval >= 1 /\ memory[1].now = updated_at) =>
        /\ ~memory[1].raised
        /\ memory[1].num = memory[1].den
        /\ memory[1].num > 0

\* an estimate taken at the instant a review with a longer interval stamped
C12_Witness ==
    /\ Called
    /\ Reviewed
    /\ interval > 1
    /\ memory[1].now = updated_at
    /\ memory[1].num = memory[1].den

Day(n) == n * TicksPerDay

\* the qualities and the instants of the scripted reviews so far
Script == [k \in 1..Len(history) |-> <<history[k].quality, history[k].at>>]

\* C13: a new card reviewed with quality 4 at day 0 has repetition 1,
\* interval 1, ease factor 2.5, next_review day 1; then with quality 5 at
\* day 1: repetition 2, interval 6, ease factor 2.6, next_review day 7; then
\* with quality 2 at day 7: repetition 0, interval 1, ease factor 2.6,
\* next_review day 8.
C13_Scenario ==
    /\ Script = << <<4, Day(0)>> >> =>
          /\ repetition = 1 /\ interval = 1 /\ ease_factor = 250
          /\ next_review = Day(1)
    /\ Script = << <<4, Day(0)>>, <<5, Day(1)>> >> =>
          /\ repetition = 2 /\ interval = 6 /\ ease_factor = 260
          /\ next_review = Day(7)
    /\ Script = << <<4, Day(0)>>, <<5, Day(1)>>, <<2, Day(7)>> >> =>
          /\ repetition = 0 /\ interval = 1 /\ ease_factor = 260
          /\ next_review = Day(8)

\* the three reviews of the scenario have been made
C13_Witness ==
    /\ Script = << <<4, Day(0)>>, <<5, Day(1)>>, <<2, Day(7)>> >>
    /\ next_review = Day(8)
    /\ ease_factor = 260

\* C14: from a newly created card, after any sequence of reviews, interval
\* is an integer >= 1.
C14_IntervalPositive == interval \in Nat /\ interval >= 1

\* a growth step from a short interval at the lowest ease factor
C14_Witness ==
    /\ Reviewed
    /\ log[1].repetition >= 2
    /\ log[1].quality >= 3
    /\ ease_factor = 130
    /\ interval > log[1].interval

\* C15: from a newly created card, repetition is the number of reviews with
\* quality >= 3 since the last review with quality < 3 (since creation if
\* there was none), and is never negative.
C15_RepetitionCount == repetition = streak /\ repetition >= 0

\* a streak that began after a lapse
C15_Witness ==
    /\ Reviewed
    /\ log[1].quality >= 3
    /\ log[1].ease_factor # DefaultEase
    /\ repetition = 3
    /\ streak = 3

\* C16: in every state of a card's life, from its creation on, next_review
\* is updated_at plus interval days.
C16_DueDate == next_review = updated_at + interval * TicksPerDay

\* C17: a review with quality q >= 3 (q brought into [0,5]) leaves the ease
\* factor max(1.3, old + 0.1 - (5 - q) * (0.08 + (5 - q) * 0.02)): 5 adds
\* 0.10, 4 changes nothing, 3 takes 0.14 but stops at 1.3; the ease factor
\* grows only on 5 and shrinks only on 3 from above 1.3.
C17_EaseStep ==
    (Reviewed /\ log[1].quality >= 3) =>
        LET q == C5_Clamped(log[1].quality)
            old == log[1].ease_factor
        IN  /\ q = 5 => ease_factor = old + 10
            /\ q = 4 => ease_factor = old
            /\ q = 3 => ease_factor = (IF old - 14 < 130 THEN 130 ELSE old - 14)
            /\ ease_factor > old => q = 5
            /\ ease_factor < old => (q = 3 /\ old > 130)

\* a quality-3 review that lowered the ease factor by the full 0.14
C17_Witness ==
    /\ Reviewed
    /\ log[1].quality = 3
    /\ log[1].ease_factor = 150
    /\ ease_factor = 136

\* C18: a review changes at most ease_factor, interval, repetition,
\* next_review and updated_at of the reviewed card; its difficulty, id,
\* deck_id and content, and every other card of the deck, stay as they were.
C18_Frame ==
    last.id \in CardIds =>
        LET c == last.id
            b == last.before
        IN  /\ \A k \in CardIds \ {c} : cards[k] = b[k]
            /\ cards[c].difficulty = b[c].difficulty
            /\ cards[c].id = b[c].id
            /\ cards[c].deck_id = b[c].deck_id
            /\ cards[c].front_content = b[c].front_content
            /\ cards[c].back_content = b[c].back_content

\* a lapse of card 1, which had been recalled, while card 2 has been
\* reviewed too
C18_Witness ==
    /\ last.id = 1
    /\ last.before[1].repetition = 1
    /\ cards[1].repetition = 0
    /\ cards[2].repetition = 1
    /\ cards[2].updated_at > 0

Listed == listing # <<>>

\* C20: Deck.to_dict(include_flashcards=True) lists exactly the deck's
\* flashcards, each once, lowest memory strength first, and leaves every
\* card's scheduling state as it was.
C20_DeckOrder ==
    /\ [](Listed =>
            LET f == listing[1].flashcards
            IN  /\ ~listing[1].raised
                /\ Len(f) = Cardinality(CardIds)
                /\ {f[p].id : p \in 1..Len(f)} = CardIds
                /\ \A p, r \in 1..Len(f) :
                      p < r => ~Less(f[r].memory_strength, f[p].memory_strength))
    /\ [][(listing' # listing) => (cards' = cards)]_vars

\* C19: from a newly created card, repetition >= 2 implies interval >= 6, a
\* review with quality >= 3 from repetition >= 2 leaves a strictly longer
\* interval, and the interval gets shorter only by a review with quality < 3.
C19_StrictGrowth ==
    /\ repetition >= 2 => interval >= 6
    /\ (Reviewed /\ log[1].quality >= 3 /\ log[1].repetition >= 2)
          => interval > log[1].interval
    /\ (Reviewed /\ interval < log[1].interval) => log[1].quality < 3

\* the smallest growth step: interval 6 at the lowest ease factor
C19_Witness ==
    /\ Reviewed
    /\ log[1].quality >= 3
    /\ log[1].repetition = 2
    /\ log[1].interval = 6
    /\ ease_factor = 130
    /\ interval = 8

=============================================================================
